---- MODULE Spec2Model ----
(***************************************************************************)
(* Model of the deepseek_backend text-to-SQL pipeline                      *)
(* (src/deepseek_backend/main.py, src/deepseek_backend/database.py).       *)
(*                                                                         *)
(* Strings are sequences of one-character strings, so that strip(),        *)
(* splitlines(), endswith(), the extraction regular expression and the     *)
(* <think> substitution are computed character by character, as Python     *)
(* computes them.                                                          *)
(***************************************************************************)
EXTENDS Integers, Sequences, FiniteSets, TLC

(***************************************************************************)
(* Bounds of the model.                                                    *)
(***************************************************************************)
\* number of lines in a generated SQL response
MaxLines == 2
\* number of lines in a text given to extract_sql_query on its own
MaxExtractLines == 3
\* number of fragments in a generated summary response
MaxParts == 3
\* number of rows the engine returns
MaxRows == 4
\* number of questions asked in one frontend session
MaxAsks == 3
\* number of chat_endpoint runs in progress at the same time
NumRuns == 2

(***************************************************************************)
(* Characters and words.                                                   *)
(***************************************************************************)
NL == "\n"
SP == " "

kSELECT == <<"S", "E", "L", "E", "C", "T">>
kselect == <<"s", "e", "l", "e", "c", "t">>
kWith   == <<"W", "i", "t", "h">>
kFROM   == <<"F", "R", "O", "M">>
kfrom   == <<"f", "r", "o", "m">>
kDROP   == <<"D", "R", "O", "P">>
tOpen   == <<"<", "t", "h", "i", "n", "k", ">">>
tClose  == <<"<", "/", "t", "h", "i", "n", "k", ">">>

\* the fixed sentence of main.py:181, kept as one opaque value
SummaryNotAvailable == <<"Summary not available.">>

\* str.upper() on the letters that occur in the model
Upper(c) ==
    CASE c = "s" -> "S" [] c = "e" -> "E" [] c = "l" -> "L" [] c = "c" -> "C"
      [] c = "t" -> "T" [] c = "w" -> "W" [] c = "i" -> "I" [] c = "h" -> "H"
      [] c = "f" -> "F" [] c = "r" -> "R" [] c = "o" -> "O" [] c = "m" -> "M"
      [] c = "a" -> "A" [] c = "u" -> "U" [] c = "k" -> "K" [] c = "n" -> "N"
      [] c = "d" -> "D" [] c = "p" -> "P"
      [] OTHER -> c

UpperSeq(s) == [i \in 1..Len(s) |-> Upper(s[i])]

\* \s of the re module
IsSpace(c) == c \in {SP, NL, "\t"}

\* \w of the re module
IsWord(c) ==
    Upper(c) \in {"A", "C", "D", "E", "F", "H", "I", "K", "L", "M", "N", "O",
                  "P", "R", "S", "T", "U", "W", "_", "1"}

\* ['\"] of the pattern
IsQuote(c) == c \in {"'", "\""}

\* the characters at which str.splitlines() breaks a line
IsLineBreak(c) == c = NL

Slice(s, a, b) == IF a > b THEN <<>> ELSE SubSeq(s, a, b)

(***************************************************************************)
(* str.strip(), str.splitlines(), str.endswith().                          *)
(***************************************************************************)
RECURSIVE lstrip(_)
lstrip(s) ==
    IF s = <<>> THEN <<>>
    ELSE IF IsSpace(Head(s)) THEN lstrip(Tail(s)) ELSE s

RECURSIVE rstrip(_)
rstrip(s) ==
    IF s = <<>> THEN <<>>
    ELSE IF IsSpace(s[Len(s)]) THEN rstrip(Slice(s, 1, Len(s) - 1)) ELSE s

strip(s) == rstrip(lstrip(s))

\* lines of s; a final line break does not open an empty last line
RECURSIVE splitlines(_)
splitlines(s) ==
    IF s = <<>> THEN <<>>
    ELSE LET brk == {i \in 1..Len(s) : IsLineBreak(s[i])}
         IN  IF brk = {} THEN <<s>>
             ELSE LET i == CHOOSE j \in brk : \A k \in brk : j <= k
                  IN  <<Slice(s, 1, i - 1)>> \o splitlines(Slice(s, i + 1, Len(s)))

endswith(s, c) == s /= <<>> /\ s[Len(s)] = c

(***************************************************************************)
(* extract_sql_query (main.py:51-74).                                      *)
(***************************************************************************)
\* variant of pattern_match: the FROM clause is not required
pattern_match_nofrom(candidate) ==
    \E k \in {4, 6} :
      /\ k < Len(candidate)
      /\ UpperSeq(Slice(candidate, 1, k)) \in {kSELECT, UpperSeq(kWith)}
      /\ IsSpace(candidate[k + 1])

\* pattern.match(candidate) for
\*   ^(SELECT|WITH)\s+.*\s+FROM\s+['\"]?[\w\.]+['\"]?   (IGNORECASE | DOTALL)
\* k is the end of the keyword, p the start of FROM, q the first character
\* after the white space that follows FROM.  match() anchors the pattern at
\* the start of the candidate only: what follows the identifier is free.
pattern_match(candidate) ==
    LET c == candidate
        n == Len(candidate)
    IN  \E k \in {4, 6} :
          /\ k <= n
          /\ UpperSeq(Slice(c, 1, k)) \in {kSELECT, UpperSeq(kWith)}
          /\ \E p \in (k + 3)..(n - 3) :
               /\ IsSpace(c[k + 1])
               /\ IsSpace(c[p - 1])
               /\ UpperSeq(Slice(c, p, p + 3)) = kFROM
               /\ \E q \in (p + 5)..n :
                    /\ \A j \in (p + 4)..(q - 1) : IsSpace(c[j])
                    /\ \/ IsWord(c[q]) \/ c[q] = "."
                       \/ /\ IsQuote(c[q])
                          /\ q + 1 <= n
                          /\ (IsWord(c[q + 1]) \/ c[q + 1] = ".")

\* the value a Python call produces: a return value or a raised exception
Returned(v) == [raised |-> FALSE, value |-> v]
Raised(type, status, msg) ==
    [raised |-> TRUE, type |-> type, status |-> status, msg |-> msg]

NoValidSql == Raised("HTTPException", 500, "DeepSeek returned an invalid SQL query.")

\* variant of terminate: the terminator is appended without the endswith test
terminate_always(candidate) == Append(candidate, ";")

\* main.py:69-72, the terminator
terminate(candidate) ==
    IF ~endswith(candidate, ";") THEN Append(candidate, ";") ELSE candidate

\* variant of scan_lines: a later matching line replaces an earlier one
RECURSIVE scan_lines_last(_, _)
scan_lines_last(lines, i) ==
    IF i > Len(lines) THEN NoValidSql
    ELSE LET candidate == strip(lines[i])
             later == scan_lines_last(lines, i + 1)
         IN  IF ~later.raised THEN later
             ELSE IF pattern_match(candidate)
             THEN Returned(IF ~endswith(candidate, ";") THEN Append(candidate, ";") ELSE candidate)
             ELSE NoValidSql

\* variant of scan_lines: when no line matches, the first line is returned
RECURSIVE scan_lines_guess(_, _)
scan_lines_guess(lines, i) ==
    IF i > Len(lines)
    THEN IF lines = <<>> THEN Returned(<<";">>) ELSE Returned(Append(strip(lines[1]), ";"))
    ELSE LET candidate == strip(lines[i])
         IN  IF pattern_match(candidate)
             THEN Returned(IF ~endswith(candidate, ";") THEN Append(candidate, ";") ELSE candidate)
             ELSE scan_lines_guess(lines, i + 1)

\* main.py:66-74, the loop over the lines from line i on
RECURSIVE scan_lines(_, _)
scan_lines(lines, i) ==
    IF i > Len(lines) THEN NoValidSql
    ELSE LET candidate == strip(lines[i])
         IN  IF pattern_match(candidate) THEN Returned(terminate(candidate))
             ELSE scan_lines(lines, i + 1)

\* variant of extract_sql_query: the text is matched whole, not line by line
extract_whole(response_text) == scan_lines(<<response_text>>, 1)

extract_sql_query(response_text) == scan_lines(splitlines(response_text), 1)

(***************************************************************************)
(* The <think> substitution and the summary fallback (main.py:175-181).    *)
(***************************************************************************)
HasAt(s, w, i) == i >= 1 /\ i + Len(w) - 1 <= Len(s) /\ Slice(s, i, i + Len(w) - 1) = w

Min(S) == CHOOSE x \in S : \A y \in S : x <= y

\* re.sub(r"<think>.*?</think>", "", s, flags=re.DOTALL): the leftmost
\* <think> that has a </think> after it, up to the nearest such </think>,
\* is removed; the search goes on after the removed segment.
RECURSIVE remove_think(_)
remove_think(s) ==
    LET closes(i) == {j \in (i + Len(tOpen))..Len(s) : HasAt(s, tClose, j)}
        opens == {i \in 1..Len(s) : HasAt(s, tOpen, i) /\ closes(i) /= {}}
    IN  IF opens = {} THEN s
        ELSE LET i == Min(opens)
                 j == Min(closes(i))
             IN  Slice(s, 1, i - 1)
                   \o remove_think(Slice(s, j + Len(tClose), Len(s)))

\* variant of clean_summary: no fallback sentence
clean_summary_nofallback(raw_summary) == strip(remove_think(raw_summary))

\* main.py:178-181
clean_summary(raw_summary) ==
    LET clean == strip(remove_think(raw_summary))
    IN  IF clean /= <<>> THEN clean ELSE SummaryNotAvailable

(***************************************************************************)
(* Python values of the pipeline.                                          *)
(***************************************************************************)
None == [py |-> "none"]
PyList(items) == [py |-> "list", items |-> items]
\* the {"error": str(e)} dictionary of database.py:41 and database.py:55
ErrorDict(msg) == [py |-> "dict", error |-> msg]
SchemaDict(tables) == [py |-> "dict", tables |-> tables]

\* generate_sql_prompt (main.py:32-49): the three arguments in the template
generate_sql_prompt(schema, question, history) ==
    [py |-> "str", template |-> "sql", schema |-> schema,
     history |-> history, question |-> question]

\* variant of Preview: the error dictionary is previewed as no rows
Preview_tolerant(result) ==
    IF result.py = "list"
    THEN Returned(Slice(result.items, 1, IF Len(result.items) < 3 THEN Len(result.items) ELSE 3))
    ELSE Returned(<<>>)

\* variant of Preview: every row is previewed
Preview_all(result) ==
    IF result.py = "list"
    THEN Returned(result.items)
    ELSE Raised("TypeError", 0, "unhashable type: 'slice'")

\* result[:3] of main.py:154; a dict cannot be sliced (TypeError, or KeyError
\* from Python 3.12 on: both reach the handler of main.py:201)
Preview(result) ==
    IF result.py = "list"
    THEN Returned(Slice(result.items, 1, IF Len(result.items) < 3 THEN Len(result.items) ELSE 3))
    ELSE Raised("TypeError", 0, "unhashable type: 'slice'")

summary_prompt_of(preview) ==
    [py |-> "str", template |-> "summary", preview |-> preview]

(***************************************************************************)
(* The exception handlers of chat_endpoint (main.py:189-208).              *)
(***************************************************************************)
\* str(e): an HTTPException prints as "<status_code>: <detail>"
Detail(prefix, code, msg) == [prefix |-> prefix, code |-> code, msg |-> msg]

Handle(exc) ==
    IF exc.type = "HTTPStatusError"
    THEN [kind |-> "error", status |-> exc.status,
          detail |-> Detail("API Error: ", exc.status, exc.msg)]
    ELSE IF exc.type = "ReadTimeout"
    THEN [kind |-> "error", status |-> 504,
          detail |-> Detail("", 0, "DeepSeek API timed out.")]
    ELSE [kind |-> "error", status |-> 500,
          detail |-> Detail("Processing Error: ", exc.status, exc.msg)]

\* variant of Success: the summary is left out of the returned dict
Success_partial(query, result, summary) ==
    [kind |-> "success", query |-> query, result |-> result]

\* main.py:183-187
Success(query, result, summary) ==
    [kind |-> "success", query |-> query, result |-> result, summary |-> summary]

(***************************************************************************)
(* The Generation Client's response, as chat_endpoint reads it.            *)
(***************************************************************************)
HttpResponse(status, body, response) ==
    [raised |-> FALSE, status |-> status, body |-> body, response |-> response]

IsSuccessStatus(status) == status >= 200 /\ status <= 299

\* main.py:128-144
read_sql_response(r) ==
    IF r.raised THEN r
    ELSE IF ~IsSuccessStatus(r.status)
    THEN Raised("HTTPStatusError", r.status, "response text")
    ELSE IF r.body = "notjson"
    THEN Raised("HTTPException", 500, "API response parsing failed: response text")
    ELSE IF r.body = "nokey"
    THEN Raised("HTTPException", 500, "Invalid API response - missing 'response' key.")
    ELSE Returned(strip(r.response))

\* main.py:168-175
read_summary_response(r) ==
    IF r.raised THEN r
    ELSE IF ~IsSuccessStatus(r.status)
    THEN Raised("HTTPStatusError", r.status, "response text")
    ELSE IF r.body = "notjson"
    THEN Raised("JSONDecodeError", 0, "Expecting value")
    ELSE IF r.body = "nokey"
    THEN Raised("HTTPException", 500, "Summary generation failed - invalid response format.")
    ELSE Returned(strip(r.response))

(***************************************************************************)
(* Inputs.                                                                 *)
(***************************************************************************)
\* the texts of at most n lines over the set of lines L
RECURSIVE TextsOf(_, _)
TextsOf(L, n) ==
    IF n = 0 THEN {<<>>}
    ELSE TextsOf(L, n - 1)
           \cup {t \o <<NL>> \o l : t \in TextsOf(L, n - 1) \ {<<>>}, l \in L}
           \cup L

\* the sequences of at most n fragments of P, concatenated
RECURSIVE PartsOf(_, _)
PartsOf(P, n) ==
    IF n = 0 THEN {<<>>}
    ELSE PartsOf(P, n - 1) \cup {t \o q : t \in PartsOf(P, n - 1), q \in P}

\* lines a generated SQL response is made of
SqlLines ==
    { <<>>,
      <<"a">>,
      kSELECT \o <<SP, "a", SP>> \o kFROM \o <<SP, "t">>,
      kselect \o <<SP, SP>> \o kfrom \o <<SP, "a", ".", "t", ";">>,
      <<SP>> \o kWith \o <<SP, "a", SP>> \o kFROM \o <<SP, "'", "t", "'", SP>>,
      kSELECT \o <<SP, "a", SP>> \o kFROM \o <<SP, "t", ";", SP>> \o kDROP \o <<SP, "t">>,
      kSELECT \o <<SP, "a", SP>> \o kFROM \o <<SP, "t", SP, "a", SP, "a">>,
      kSELECT \o <<SP, "a">>,
      kFROM \o <<SP, "t">> }

SqlTexts == TextsOf(SqlLines, MaxLines)

SummaryParts == {tOpen, tClose, <<"a">>, <<SP>>, <<NL>>}

SummaryTexts == PartsOf(SummaryParts, MaxParts)

Requests ==
    { [question |-> <<"q", "1">>, chat_history |-> <<>>],
      [question |-> <<"q", "2">>, chat_history |-> << <<"q", "1">> >>] }

Row(i) == [id |-> i]

\* what the engine returns for a statement it accepts
RowLists == {[i \in 1..n |-> Row(i)] : n \in 0..MaxRows}

Schemas == {SchemaDict(<<"customers", "orders">>)}

\* the inspector raises: an SQLAlchemyError, or an exception of another type
InspectFailures ==
    { Raised("SQLAlchemyError", 0, "inspect failed"),
      Raised("RuntimeError", 0, "inspect crashed") }

\* the engine raises: an SQLAlchemyError (the statement is rejected), or an
\* exception of another type
EngineFailures ==
    { Raised("SQLAlchemyError", 0, "engine rejected the statement"),
      Raised("RuntimeError", 0, "driver crashed") }

TransportFailures ==
    { Raised("ReadTimeout", 0, "read timed out"),
      Raised("ConnectTimeout", 0, "connect timed out"),
      Raised("ConnectError", 0, "connection refused") }

FailedResponses ==
    TransportFailures
      \cup {HttpResponse(st, "text", <<>>) : st \in {404, 503}}
      \cup {HttpResponse(200, b, <<>>) : b \in {"notjson", "nokey"}}

SqlResponses == FailedResponses \cup {HttpResponse(200, "text", t) : t \in SqlTexts}

SummaryResponses ==
    FailedResponses \cup {HttpResponse(200, "text", t) : t \in SummaryTexts}

(***************************************************************************)
(* State of one run of chat_endpoint (main.py:77-208).                     *)
(***************************************************************************)
VARIABLES
    pc,             \* position of the run in chat_endpoint
    request,        \* the ChatRequest
    schema_info,    \* main.py:100
    prompt,         \* main.py:103
    raw_query,      \* main.py:144
    sql_query,      \* main.py:145
    result,         \* main.py:150
    summary_prompt, \* main.py:154
    raw_summary,    \* main.py:175
    outcome,        \* the response: the returned dict or the HTTPException
    failed_stage,   \* the stage whose exception ended the run
    gen_calls,      \* the prompts posted to /generate, in order
    executed,       \* the statements passed to execute_query, in order
    trace,          \* the stages begun, in order
    raised_exc,     \* the exception that left the try block of main.py:88
    inflight,       \* the /generate calls posted and not yet answered
    engine_out,     \* what the engine did with the executed statement
    open_conns,     \* the connections checked out of the run's engine
    checkouts,      \* the connections the run has checked out so far
    session_history,\* frontend: st.session_state.chat_history
    front_pc,       \* frontend: position of main() in frontend.py
    asked,          \* frontend: the questions submitted, in order
    replies,        \* frontend: what each finished POST /chat came back with
    runs,           \* concurrent runs: the local variables of each run
    seen,           \* concurrent runs: the external responses each run got
    text,           \* extraction on its own: the text given
    extracted,      \* extraction on its own: extract_sql_query(text)
    again,          \* extraction on its own: extract_sql_query of that
    applied         \* extraction on its own: number of applications

vars == <<pc, request, schema_info, prompt, raw_query, sql_query, result,
          summary_prompt, raw_summary, outcome, failed_stage, gen_calls,
          executed, trace, raised_exc, inflight, engine_out, open_conns,
          checkouts, session_history, front_pc, asked, replies, runs, seen,
          text, extracted, again, applied>>

runVars == <<pc, request, schema_info, prompt, raw_query, sql_query, result,
             summary_prompt, raw_summary, outcome, failed_stage, gen_calls,
             executed, trace, raised_exc, inflight, engine_out, open_conns,
             checkouts>>

extractVars == <<text, extracted, again, applied>>

sessionVars == <<session_history, front_pc, asked, replies>>

concurrentVars == <<runs, seen>>

\* what a step of the single run leaves alone
outsideRun == <<extractVars, sessionVars, concurrentVars>>

NoOutcome == [kind |-> "none"]

InitRun(p) ==
    /\ pc = p
    /\ schema_info = None
    /\ prompt = None
    /\ raw_query = <<>>
    /\ sql_query = <<>>
    /\ result = None
    /\ summary_prompt = None
    /\ raw_summary = <<>>
    /\ outcome = NoOutcome
    /\ failed_stage = "none"
    /\ gen_calls = <<>>
    /\ executed = <<>>
    /\ trace = <<>>
    /\ raised_exc = None
    /\ inflight = 0
    /\ engine_out = None
    /\ open_conns = 0
    /\ checkouts = 0

InitExtraction(t) ==
    /\ text = t
    /\ extracted = None
    /\ again = None
    /\ applied = 0

\* frontend.py:10-12
InitSession(p) ==
    /\ session_history = <<>>
    /\ front_pc = p
    /\ asked = <<>>
    /\ replies = <<>>

InitConcurrent(rs) ==
    /\ runs = rs
    /\ seen = [r \in DOMAIN rs |-> <<>>]

Init ==
    /\ request \in Requests
    /\ InitRun("start")
    /\ InitExtraction(<<>>)
    /\ InitSession("off")
    /\ InitConcurrent(<<>>)

\* variant of Fail: a failed extraction asks the generator again
Fail_retry(stage, exc) ==
    IF stage = "extract"
    THEN /\ pc' = "post_sql"
         /\ UNCHANGED <<failed_stage, raised_exc, outcome>>
    ELSE /\ pc' = "failed"
         /\ failed_stage' = stage
         /\ raised_exc' = exc
         /\ outcome' = Handle(exc)

\* an exception leaves the try block of main.py:88 and reaches a handler
Fail(stage, exc) ==
    /\ pc' = "failed"
    /\ failed_stage' = stage
    /\ raised_exc' = exc
    /\ outcome' = Handle(exc)

Begin(stage) == trace' = Append(trace, stage)

\* engine.connect(): a connection is checked out of the pool
checkout(n) == n + 1

\* variant of release: the connection is given back on the normal path only
release_on_return(n, raised) == IF raised THEN n ELSE n - 1

\* the end of a `with engine.connect() as conn:` block (main.py:94,
\* database.py:49), left by falling through or by an exception
release(n, raised) == n - 1

\* main.py:90-97, the liveness check
Connect ==
    /\ pc = "start"
    /\ Begin("connect")
    /\ \E alive \in BOOLEAN :
         IF alive
         THEN /\ pc' = "schema"
              /\ checkouts' = checkouts + 1
              /\ open_conns' = release(checkout(open_conns), FALSE)
              /\ UNCHANGED <<outcome, failed_stage, raised_exc>>
         ELSE /\ Fail("connect", Raised("HTTPException", 500, "Database connection failed!"))
              /\ UNCHANGED <<open_conns, checkouts>>
    /\ UNCHANGED <<request, schema_info, prompt, raw_query, sql_query, result,
                   summary_prompt, raw_summary, gen_calls, executed>>
    /\ UNCHANGED <<inflight, engine_out>>
    /\ UNCHANGED outsideRun

\* database.py:28-41: the snapshot, or the error dictionary when the
\* inspector raises SQLAlchemyError; both are returned (main.py:100)
get_schema_info(inspected) ==
    IF inspected.raised /\ inspected.type = "SQLAlchemyError"
    THEN Returned(ErrorDict(inspected.msg))
    ELSE inspected

GetSchema ==
    /\ pc = "schema"
    /\ Begin("schema")
    /\ \E inspected \in {Returned(sc) : sc \in Schemas} \cup InspectFailures :
         LET r == get_schema_info(inspected)
         IN  IF r.raised
             THEN /\ Fail("schema", r)
                  /\ UNCHANGED schema_info
             ELSE /\ schema_info' = r.value
                  /\ pc' = "prompt"
                  /\ UNCHANGED <<outcome, failed_stage, raised_exc>>
    /\ UNCHANGED <<request, prompt, raw_query, sql_query, result,
                   summary_prompt, raw_summary, gen_calls, executed>>
    /\ UNCHANGED <<inflight, engine_out, open_conns, checkouts>>
    /\ UNCHANGED outsideRun

\* main.py:103-107
BuildPrompt ==
    /\ pc = "prompt"
    /\ Begin("prompt")
    /\ prompt' = generate_sql_prompt(schema_info, request.question, request.chat_history)
    /\ pc' = "post_sql"
    /\ UNCHANGED <<request, schema_info, raw_query, sql_query, result,
                   summary_prompt, raw_summary, outcome, failed_stage,
                   raised_exc, gen_calls, executed>>
    /\ UNCHANGED <<inflight, engine_out, open_conns, checkouts>>
    /\ UNCHANGED outsideRun

\* main.py:113-121, the request is sent and the run awaits the response
PostSql ==
    /\ pc = "post_sql"
    /\ Begin("generate_sql")
    /\ gen_calls' = Append(gen_calls, prompt)
    /\ pc' = "await_sql"
    /\ UNCHANGED <<request, schema_info, prompt, raw_query, sql_query, result,
                   summary_prompt, raw_summary, outcome, failed_stage,
                   raised_exc, executed>>
    /\ inflight' = inflight + 1
    /\ UNCHANGED <<engine_out, open_conns, checkouts>>
    /\ UNCHANGED outsideRun

\* main.py:114-144, the response or the transport failure arrives
ReceiveSql ==
    /\ pc = "await_sql"
    /\ \E r \in SqlResponses :
         LET v == read_sql_response(r)
         IN  IF v.raised
             THEN /\ Fail("generate_sql", v)
                  /\ UNCHANGED raw_query
             ELSE /\ raw_query' = v.value
                  /\ pc' = "extract"
                  /\ UNCHANGED <<outcome, failed_stage, raised_exc>>
    /\ UNCHANGED <<request, schema_info, prompt, sql_query, result,
                   summary_prompt, raw_summary, gen_calls, executed, trace>>
    /\ inflight' = inflight - 1
    /\ UNCHANGED <<engine_out, open_conns, checkouts>>
    /\ UNCHANGED outsideRun

\* main.py:145
Extract ==
    /\ pc = "extract"
    /\ Begin("extract")
    /\ LET v == extract_sql_query(raw_query)
       IN  IF v.raised
           THEN /\ Fail("extract", v)
                /\ UNCHANGED sql_query
           ELSE /\ sql_query' = v.value
                /\ pc' = "execute"
                /\ UNCHANGED <<outcome, failed_stage, raised_exc>>
    /\ UNCHANGED <<request, schema_info, prompt, raw_query, result,
                   summary_prompt, raw_summary, gen_calls, executed>>
    /\ UNCHANGED <<inflight, engine_out, open_conns, checkouts>>
    /\ UNCHANGED outsideRun

\* database.py:43-55: the rows, or the error dictionary when the engine
\* raises SQLAlchemyError; both are returned (main.py:150)
execute_query(ran) ==
    IF ~ran.raised THEN Returned(PyList(ran.value))
    ELSE IF ran.type = "SQLAlchemyError" THEN Returned(ErrorDict(ran.msg))
    ELSE ran

Execute ==
    /\ pc = "execute"
    /\ Begin("execute")
    /\ executed' = Append(executed, sql_query)
    /\ checkouts' = checkouts + 1
    /\ \E ran \in {Returned(rows) : rows \in RowLists} \cup EngineFailures :
         /\ engine_out' = ran
         /\ open_conns' = release(checkout(open_conns), ran.raised)
         /\ LET r == execute_query(ran)
            IN  IF r.raised
                THEN /\ Fail("execute", r)
                     /\ UNCHANGED result
                ELSE /\ result' = r.value
                     /\ pc' = "post_summary"
                     /\ UNCHANGED <<outcome, failed_stage, raised_exc>>
    /\ UNCHANGED <<request, schema_info, prompt, raw_query, sql_query,
                   summary_prompt, raw_summary, gen_calls>>
    /\ UNCHANGED inflight
    /\ UNCHANGED outsideRun

\* main.py:154-163, the summary prompt is built and sent
PostSummary ==
    /\ pc = "post_summary"
    /\ Begin("generate_summary")
    /\ LET pv == Preview(result)
       IN  IF pv.raised
           THEN /\ Fail("generate_summary", pv)
                /\ UNCHANGED <<summary_prompt, gen_calls, inflight>>
           ELSE /\ summary_prompt' = summary_prompt_of(pv.value)
                /\ inflight' = inflight + 1
                /\ gen_calls' = Append(gen_calls, summary_prompt_of(pv.value))
                /\ pc' = "await_summary"
                /\ UNCHANGED <<outcome, failed_stage, raised_exc>>
    /\ UNCHANGED <<request, schema_info, prompt, raw_query, sql_query, result,
                   raw_summary, executed>>
    /\ UNCHANGED <<engine_out, open_conns, checkouts>>
    /\ UNCHANGED outsideRun

\* main.py:156-187, the response or the transport failure arrives
ReceiveSummary ==
    /\ pc = "await_summary"
    /\ \E r \in SummaryResponses :
         LET v == read_summary_response(r)
         IN  IF v.raised
             THEN /\ Fail("generate_summary", v)
                  /\ UNCHANGED raw_summary
             ELSE /\ raw_summary' = v.value
                  /\ outcome' = Success(sql_query, result, clean_summary(v.value))
                  /\ pc' = "done"
                  /\ UNCHANGED <<failed_stage, raised_exc>>
    /\ UNCHANGED <<request, schema_info, prompt, raw_query, sql_query, result,
                   summary_prompt, gen_calls, executed, trace>>
    /\ inflight' = inflight - 1
    /\ UNCHANGED <<engine_out, open_conns, checkouts>>
    /\ UNCHANGED outsideRun

Next ==
    \/ Connect
    \/ GetSchema
    \/ BuildPrompt
    \/ PostSql
    \/ ReceiveSql
    \/ Extract
    \/ Execute
    \/ PostSummary
    \/ ReceiveSummary

Spec == Init /\ [][Next]_vars

(***************************************************************************)
(* extract_sql_query on its own: applied to a text, then to its own        *)
(* result.                                                                 *)
(***************************************************************************)
Keywords == {kSELECT, <<SP>> \o kWith, <<"a">>}
Middles == {<<SP>>, <<SP, "a", SP>>}
Rests ==
    { <<>>,
      kFROM \o <<SP, "t">>,
      kfrom \o <<SP, "'", "a", ".", "t", "'", ";">>,
      kFROM \o <<SP, "t", ";", SP>> \o kDROP \o <<SP, "t">> }

ExtractLines ==
    {<<>>} \cup {k \o m \o r : k \in Keywords, m \in Middles, r \in Rests}

ExtractTexts == TextsOf(ExtractLines, MaxExtractLines)

InitExtract ==
    /\ request \in {r \in Requests : r.chat_history = <<>>}
    /\ InitRun("idle")
    /\ \E t \in ExtractTexts : InitExtraction(t)
    /\ InitSession("off")
    /\ InitConcurrent(<<>>)

ExtractOnce ==
    /\ applied = 0
    /\ extracted' = extract_sql_query(text)
    /\ applied' = 1
    /\ UNCHANGED <<text, again>>
    /\ UNCHANGED <<runVars, sessionVars, concurrentVars>>

ExtractAgain ==
    /\ applied = 1
    /\ ~extracted.raised
    /\ again' = extract_sql_query(extracted.value)
    /\ applied' = 2
    /\ UNCHANGED <<text, extracted>>
    /\ UNCHANGED <<runVars, sessionVars, concurrentVars>>

NextExtract == ExtractOnce \/ ExtractAgain

SpecExtract == InitExtract /\ [][NextExtract]_vars

(***************************************************************************)
(* Properties.                                                             *)
(***************************************************************************)
Range(f) == {f[i] : i \in DOMAIN f}

Terminal == {"done", "failed"}

IsErrorDict(v) == v.py = "dict" /\ "error" \in DOMAIN v

\* the lines of t whose stripped form has the (SELECT|WITH) ... FROM shape
MatchingLines(t) ==
    {i \in 1..Len(splitlines(t)) : pattern_match(strip(splitlines(t)[i]))}

\* the first line of t with the shape, stripped
FirstCandidate(t) == strip(splitlines(t)[Min(MatchingLines(t))])

WithTerminator(c) == IF c /= <<>> /\ c[Len(c)] = ";" THEN c ELSE c \o <<";">>

\* execute_query did not produce rows
QueryFailed == IsErrorDict(result) \/ failed_stage = "execute"

\* C1: when execute_query fails, the summary generation call is never
\* issued and the run returns an error without `result` or `summary`.
C1_FailFastStaging ==
    QueryFailed =>
        /\ Len(gen_calls) <= 1
        /\ summary_prompt = None
        /\ pc \notin {"await_summary", "done"}
        /\ outcome.kind /= "success"
        /\ pc = "failed" =>
             /\ outcome.kind = "error"
             /\ {"result", "summary"} \cap DOMAIN outcome = {}

C1_Witness ==
    /\ pc = "failed"
    /\ IsErrorDict(result)
    /\ executed /= <<>>
    /\ outcome.kind = "error"

\* C2: when get_schema_info fails, the prompt is not built, no generation
\* call is made, no query is executed, and the run ends Failed for the
\* schema stage.
C2_SchemaFailureHalts ==
    IsErrorDict(schema_info) =>
        /\ prompt = None
        /\ gen_calls = <<>>
        /\ executed = <<>>
        /\ pc \in Terminal => (pc = "failed" /\ failed_stage = "schema")

\* C3: when one or more lines have the shape, extract_sql_query returns the
\* first of them in document order, stripped and terminated, whatever the
\* lines after it and the non-matching lines before it.
C3_FirstMatchWins ==
    (applied >= 1 /\ MatchingLines(text) /= {}) =>
        /\ ~extracted.raised
        /\ extracted.value = WithTerminator(FirstCandidate(text))

C3_Witness ==
    /\ applied >= 1
    /\ Cardinality(MatchingLines(text)) >= 2
    /\ 1 \notin MatchingLines(text)
    /\ \E i \in MatchingLines(text) :
         strip(splitlines(text)[i]) /= FirstCandidate(text)
    /\ extracted = Returned(WithTerminator(FirstCandidate(text)))

\* nothing but white space and terminators follows the first terminator
OneStatement(q) ==
    \A j \in 1..Len(q) :
        q[j] = ";" => \A k \in (j + 1)..Len(q) : IsSpace(q[k]) \/ q[k] = ";"

\* C4: every string passed to execute_query holds exactly one statement; a
\* semicolon-separated batch on a line never reaches execution.
C4_SingleStatement == \A i \in 1..Len(executed) : OneStatement(executed[i])

\* C5: when no line has the shape, extract_sql_query fails with the
\* no-valid-SQL error and returns no string.
C5_RejectionComplete ==
    (applied >= 1 /\ MatchingLines(text) = {}) =>
        /\ extracted.raised
        /\ extracted.type = "HTTPException"
        /\ extracted.status = 500
        /\ extracted.msg = "DeepSeek returned an invalid SQL query."

\* SELECT and FROM on different lines: the text as a whole has the shape,
\* no line of it has
C5_Witness ==
    /\ applied >= 1
    /\ MatchingLines(text) = {}
    /\ Len(splitlines(text)) = 2
    /\ pattern_match(strip(text))
    /\ extracted.raised

\* C6: a candidate that ends with ';' is returned without a second ';',
\* and extracting from an extracted query returns that query.
C6_TerminatorIdempotent ==
    /\ (applied >= 1 /\ MatchingLines(text) /= {} /\ endswith(FirstCandidate(text), ";")) =>
           extracted = Returned(FirstCandidate(text))
    /\ applied = 2 => again = extracted

C6_Witness ==
    /\ applied = 2
    /\ endswith(FirstCandidate(text), ";")
    /\ again = Returned(FirstCandidate(text))

StartsWithKeyword(q) ==
    \/ UpperSeq(Slice(q, 1, 6)) = <<"S", "E", "L", "E", "C", "T">>
    \/ UpperSeq(Slice(q, 1, 4)) = <<"W", "I", "T", "H">>

ContainsFrom(q) ==
    \E p \in 1..(Len(q) - 3) : UpperSeq(Slice(q, p, p + 3)) = <<"F", "R", "O", "M">>

\* C7: every string passed to execute_query is the value extract_sql_query
\* returned for the first generation response; it begins with SELECT or
\* WITH in any case, contains FROM and ends with ';'.
C7_ExtractedQueryInvariant ==
    \A i \in 1..Len(executed) :
        /\ extract_sql_query(raw_query) = Returned(executed[i])
        /\ StartsWithKeyword(executed[i])
        /\ ContainsFrom(executed[i])
        /\ endswith(executed[i], ";")

C7_Witness ==
    /\ Len(executed) = 1
    /\ Slice(executed[1], 1, 6) = kselect
    /\ executed[1] = sql_query

\* C8: when the first generation call succeeds and its text has no line of
\* the shape, the run fails at extraction with the no-valid-SQL failure;
\* execute_query is never invoked and no summary call is issued.
C8_NoSqlNoDatabaseCall ==
    ((pc = "extract" \/ "extract" \in Range(trace)) /\ MatchingLines(raw_query) = {}) =>
        /\ executed = <<>>
        /\ result = None
        /\ Len(gen_calls) = 1
        /\ pc \in {"extract", "failed"}
        /\ pc = "failed" =>
             /\ failed_stage = "extract"
             /\ outcome.kind = "error"
             /\ outcome.detail.msg = "DeepSeek returned an invalid SQL query."

C8_Witness ==
    /\ pc = "failed"
    /\ failed_stage = "extract"
    /\ raw_query /= <<>>
    /\ MatchingLines(raw_query) = {}
    /\ executed = <<>>

\* C9: a success response has a non-empty summary; when removing the
\* <think> segments and trimming leaves nothing, the summary is the fixed
\* sentence.
C9_SummaryNeverEmpty ==
    outcome.kind = "success" =>
        /\ outcome.summary /= <<>>
        /\ strip(remove_think(raw_summary)) = <<>> =>
             outcome.summary = <<"Summary not available.">>

\* the generated summary is one reasoning segment and nothing else
C9_Witness ==
    /\ pc = "done"
    /\ raw_summary = tOpen \o <<"a">> \o tClose
    /\ outcome.summary = <<"Summary not available.">>

\* C10: the response is a success with query, result (a list of rows) and
\* summary, or an error with status and detail and none of them; a run
\* ends in exactly one of Done and Failed and does nothing after it.
C10_OutcomeShape ==
    /\ pc \notin Terminal =>
         /\ outcome = NoOutcome
         /\ pc \in {"start", "schema", "prompt", "post_sql", "await_sql",
                    "extract", "execute", "post_summary", "await_summary"}
    /\ pc = "done" =>
         /\ DOMAIN outcome = {"kind", "query", "result", "summary"}
         /\ outcome.kind = "success"
         /\ outcome.result.py = "list"
         /\ failed_stage = "none"
    /\ pc = "failed" =>
         /\ DOMAIN outcome = {"kind", "status", "detail"}
         /\ outcome.kind = "error"
         /\ failed_stage /= "none"

C10_NeverPartial == []C10_OutcomeShape /\ [][pc \notin Terminal]_vars

C10_Witness ==
    /\ pc = "done"
    /\ outcome.kind = "success"
    /\ Len(outcome.result.items) = MaxRows
    /\ outcome.query = sql_query

\* the engine rejected the executed statement
EngineRejected ==
    executed /= <<>> /\ engine_out.raised /\ engine_out.type = "SQLAlchemyError"

\* C11: when the engine rejects the statement, the run ends in an error
\* whose detail carries the engine's own message.
C11_EngineMessageSurfaced ==
    (EngineRejected /\ pc \in Terminal) =>
        /\ outcome.kind = "error"
        /\ failed_stage = "execute"
        /\ outcome.detail.msg = engine_out.msg

TimedOutResponse ==
    [kind |-> "error", status |-> 504,
     detail |-> [prefix |-> "", code |-> 0, msg |-> "DeepSeek API timed out."]]

\* C12: for either generation call, a connect timeout and a read timeout
\* both end the run with the timed-out response, and no other failure does.
C12_TimeoutMapping ==
    (pc = "failed" /\ failed_stage \in {"generate_sql", "generate_summary"}) =>
        (raised_exc.type \in {"ReadTimeout", "ConnectTimeout"}
            <=> outcome = TimedOutResponse)

\* the kind of an external error: its status and the class its detail names
ErrorKind(o) == <<o.status, o.detail.prefix>>

\* the external errors of a non-2xx status or a network failure of the call
TransportErrors ==
    {Handle(read_sql_response(r)) :
        r \in TransportFailures \cup {HttpResponse(st, "text", <<>>) : st \in {404, 503}}}

\* C13: the error returned when the generated text holds no line of the
\* shape is of a kind that no transport error of the generation call has.
C13_NoValidSqlDistinctKind ==
    (pc = "failed" /\ failed_stage = "extract") =>
        \A t \in TransportErrors : ErrorKind(outcome) /= ErrorKind(t)

NoDuplicates(q) == \A i, j \in 1..Len(q) : q[i] = q[j] => i = j

\* C16: a run posts at most two generation calls and begins no stage twice;
\* the summary call is posted only after the SQL call has returned, its
\* text has been extracted and the query has been executed; at most one
\* call is outstanding.
C16_NoRetryNoOverlap ==
    /\ Len(gen_calls) <= 2
    /\ NoDuplicates(trace)
    /\ inflight \in {0, 1}
    /\ Len(gen_calls) = 2 =>
         /\ trace = <<"connect", "schema", "prompt", "generate_sql",
                      "extract", "execute", "generate_summary">>
         /\ extract_sql_query(raw_query) = Returned(sql_query)
         /\ executed = <<sql_query>>
         /\ gen_calls[1] = prompt
         /\ gen_calls[2] = summary_prompt

C16_Witness ==
    /\ pc = "await_summary"
    /\ Len(gen_calls) = 2
    /\ inflight = 1

\* C17: the summary prompt holds the first 3 rows of the result at most, in
\* the engine's order; the success response holds every row, in that order.
C17_BoundedPreview ==
    /\ summary_prompt /= None =>
         LET rows == engine_out.value
             n == IF Len(rows) < 3 THEN Len(rows) ELSE 3
         IN  /\ Len(summary_prompt.preview) <= 3
             /\ summary_prompt.preview = [i \in 1..n |-> rows[i]]
    /\ outcome.kind = "success" => outcome.result.items = engine_out.value

C17_Witness ==
    /\ pc = "done"
    /\ Len(engine_out.value) > 3
    /\ Len(summary_prompt.preview) = 3
    /\ Len(outcome.result.items) = Len(engine_out.value)

\* C19: the connections checked out for the liveness check and for the
\* execution are released when their stage ends, also when it fails; a run
\* that is Done or Failed holds none.
C19_ConnectionsReleased ==
    /\ open_conns = 0
    /\ pc = "done" => checkouts = 2

C19_Witness ==
    /\ pc = "failed"
    /\ checkouts = 2
    /\ engine_out.raised
    /\ open_conns = 0

(***************************************************************************)
(* The frontend session (frontend.py:10-12, 58-106): a question is         *)
(* appended and posted to /chat, then the reply is recorded.  The backend  *)
(* is seen through its reply only.  Timestamps are left out.               *)
(***************************************************************************)
UserEntry(question) == [type |-> "user", content |-> question]

AssistantEntry(body) ==
    [type |-> "assistant", content |-> body.summary,
     query |-> body.query, result |-> body.result]

\* frontend.py:72
user_contents(history) ==
    LET users == SelectSeq(history, LAMBDA e : e.type = "user")
    IN  [i \in 1..Len(users) |-> users[i].content]

\* frontend.py:69-73, the payload (the connection is left out)
payload(question, history) ==
    [question |-> question, chat_history |-> user_contents(history)]

\* variant of record_reply: the status code is not looked at
record_reply_any(history, reply) ==
    IF reply.raised THEN history
    ELSE Append(history,
                [type |-> "assistant", content |-> <<>>,
                 query |-> <<>>, result |-> PyList(<<>>)])

\* frontend.py:84-106
record_reply(history, reply) ==
    IF reply.raised THEN history
    ELSE IF reply.status_code = 200 THEN Append(history, AssistantEntry(reply.body))
    ELSE history

\* what requests.post returns for an outcome of chat_endpoint
HttpReply(o) ==
    [raised |-> FALSE, status_code |-> IF o.kind = "success" THEN 200 ELSE o.status,
     body |-> o]

SessionQuestions == {<<"q", "1">>, <<"q", "2">>}

Replies ==
    {HttpReply(Success(kSELECT \o <<SP, "a", SP>> \o kFROM \o <<SP, "t", ";">>,
                       PyList(rows), <<"a">>)) : rows \in {<<>>, <<Row(1)>>}}
      \cup {HttpReply(Handle(e)) :
              e \in {NoValidSql, Raised("ReadTimeout", 0, "read timed out"),
                     Raised("HTTPStatusError", 404, "response text")}}
      \cup {Raised("RequestException", 0, "connection failed")}

NoRequest == [question |-> <<>>, chat_history |-> <<>>]

InitFrontend ==
    /\ request = NoRequest
    /\ InitRun("idle")
    /\ InitExtraction(<<>>)
    /\ InitSession("idle")
    /\ InitConcurrent(<<>>)

\* frontend.py:58-82
Ask ==
    /\ front_pc = "idle"
    /\ Len(asked) < MaxAsks
    /\ \E q \in SessionQuestions :
         /\ session_history' = Append(session_history, UserEntry(q))
         /\ request' = payload(q, Append(session_history, UserEntry(q)))
         /\ asked' = Append(asked, q)
    /\ front_pc' = "waiting"
    /\ UNCHANGED <<pc, schema_info, prompt, raw_query, sql_query, result,
                   summary_prompt, raw_summary, outcome, failed_stage,
                   gen_calls, executed, trace, raised_exc, inflight,
                   engine_out, open_conns, checkouts>>
    /\ UNCHANGED <<replies, extractVars, concurrentVars>>

\* frontend.py:78-106
Reply ==
    /\ front_pc = "waiting"
    /\ \E reply \in Replies :
         /\ session_history' = record_reply(session_history, reply)
         /\ replies' = Append(replies, reply)
    /\ front_pc' = "idle"
    /\ UNCHANGED <<asked, runVars, extractVars, concurrentVars>>

NextFrontend == Ask \/ Reply

SpecFrontend == InitFrontend /\ [][NextFrontend]_vars

\* C14: the chat_history sent with a question is the list of the questions
\* asked before it in the session, most recent last, without the question
\* itself.
C14_PriorQuestionsOnly ==
    front_pc = "waiting" =>
        /\ request.question = asked[Len(asked)]
        /\ request.chat_history = SubSeq(asked, 1, Len(asked) - 1)

IsPrefix(a, b) == Len(a) <= Len(b) /\ \A i \in 1..Len(a) : a[i] = b[i]

IsSuccessReply(reply) == ~reply.raised /\ reply.status_code = 200

\* the history the first n asks lead to: a user entry for each question,
\* followed by an assistant entry when its reply is a success
RECURSIVE ExpectedHistory(_)
ExpectedHistory(n) ==
    IF n = 0 THEN <<>>
    ELSE ExpectedHistory(n - 1)
           \o <<[type |-> "user", content |-> asked[n]]>>
           \o (IF n <= Len(replies) /\ IsSuccessReply(replies[n])
               THEN <<[type |-> "assistant", content |-> replies[n].body.summary,
                       query |-> replies[n].body.query,
                       result |-> replies[n].body.result]>>
               ELSE <<>>)

C20_HistoryShape == session_history = ExpectedHistory(Len(asked))

\* C20: the session history only grows at its end; it holds a user entry
\* for every question asked and an assistant entry right after the user
\* entry of each question answered with success, and no other.
C20_AppendOnly ==
    []C20_HistoryShape /\ [][IsPrefix(session_history, session_history')]_vars

\* a failed ask, then an answered one
C20_Witness ==
    /\ front_pc = "idle"
    /\ Len(asked) = 2
    /\ ~IsSuccessReply(replies[1])
    /\ IsSuccessReply(replies[2])
    /\ Len(session_history) = 3
    /\ session_history[3].type = "assistant"

(***************************************************************************)
(* Concurrent runs of chat_endpoint.  Every name chat_endpoint assigns     *)
(* (db_manager, schema_info, prompt, ..., summary) is a local of the       *)
(* coroutine (main.py:88-187), so each run has a frame of its own; the     *)
(* module holds no mutable global (main.py:14-30).  A step is one stage of *)
(* one run, fed with the external response x of that stage.                *)
(***************************************************************************)
StartFrame(req) ==
    [pc |-> "start", request |-> req, schema_info |-> None, prompt |-> None,
     raw_query |-> <<>>, sql_query |-> <<>>, result |-> None,
     summary_prompt |-> None, outcome |-> NoOutcome]

\* main.py:189-208
failed_frame(l, exc) == [l EXCEPT !.pc = "failed", !.outcome = Handle(exc)]

NoInput == Returned(<<>>)

\* one stage of chat_endpoint on the frame l
stage(l, x) ==
    CASE l.pc = "start" ->
           IF x.raised
           THEN failed_frame(l, Raised("HTTPException", 500, "Database connection failed!"))
           ELSE [l EXCEPT !.pc = "schema"]
      [] l.pc = "schema" ->
           LET r == get_schema_info(x)
           IN  IF r.raised THEN failed_frame(l, r)
               ELSE [l EXCEPT !.schema_info = r.value, !.pc = "prompt"]
      [] l.pc = "prompt" ->
           [l EXCEPT !.prompt = generate_sql_prompt(l.schema_info, l.request.question,
                                                    l.request.chat_history),
                     !.pc = "post_sql"]
      [] l.pc = "post_sql" -> [l EXCEPT !.pc = "await_sql"]
      [] l.pc = "await_sql" ->
           LET v == read_sql_response(x)
           IN  IF v.raised THEN failed_frame(l, v)
               ELSE [l EXCEPT !.raw_query = v.value, !.pc = "extract"]
      [] l.pc = "extract" ->
           LET v == extract_sql_query(l.raw_query)
           IN  IF v.raised THEN failed_frame(l, v)
               ELSE [l EXCEPT !.sql_query = v.value, !.pc = "execute"]
      [] l.pc = "execute" ->
           LET r == execute_query(x)
           IN  IF r.raised THEN failed_frame(l, r)
               ELSE [l EXCEPT !.result = r.value, !.pc = "post_summary"]
      [] l.pc = "post_summary" ->
           LET pv == Preview(l.result)
           IN  IF pv.raised THEN failed_frame(l, pv)
               ELSE [l EXCEPT !.summary_prompt = summary_prompt_of(pv.value),
                              !.pc = "await_summary"]
      [] l.pc = "await_summary" ->
           LET v == read_summary_response(x)
           IN  IF v.raised THEN failed_frame(l, v)
               ELSE [l EXCEPT !.outcome = Success(l.sql_query, l.result,
                                                  clean_summary(v.value)),
                              !.pc = "done"]
      [] OTHER -> l

\* the external responses a stage can get
StageInputs(p) ==
    CASE p = "start" -> {NoInput, Raised("OperationalError", 0, "connection refused")}
      [] p = "schema" ->
           {Returned(sc) : sc \in Schemas} \cup {Raised("SQLAlchemyError", 0, "inspect failed")}
      [] p = "await_sql" ->
           { Raised("ReadTimeout", 0, "read timed out"),
             HttpResponse(200, "text", <<"a">>),
             HttpResponse(200, "text", kSELECT \o <<SP, "a", SP>> \o kFROM \o <<SP, "t">>) }
      [] p = "execute" ->
           { Returned(<<>>), Returned(<<Row(1), Row(2)>>),
             Raised("SQLAlchemyError", 0, "engine rejected the statement") }
      [] p = "await_summary" ->
           { HttpResponse(503, "text", <<>>),
             HttpResponse(200, "text", <<"a">>),
             HttpResponse(200, "text", tOpen \o tClose) }
      [] OTHER -> {NoInput}

\* variant of frame: the locals are kept in one module-level place
frame_shared(r) == 1

\* the frame that holds the locals of run r
frame(r) == r

InitConcurrentRuns ==
    /\ request = NoRequest
    /\ InitRun("idle")
    /\ InitExtraction(<<>>)
    /\ InitSession("off")
    /\ \E rs \in [1..NumRuns -> {StartFrame(req) : req \in Requests}] :
         InitConcurrent(rs)

RunStage(r) ==
    /\ runs[frame(r)].pc \notin {"done", "failed"}
    /\ \E x \in StageInputs(runs[frame(r)].pc) :
         /\ runs' = [runs EXCEPT ![frame(r)] = stage(runs[frame(r)], x)]
         /\ seen' = [seen EXCEPT ![r] = Append(seen[r], x)]
    /\ UNCHANGED <<runVars, extractVars, sessionVars>>

NextConcurrent == \E r \in 1..NumRuns : RunStage(r)

SpecConcurrent == InitConcurrentRuns /\ [][NextConcurrent]_vars

\* the frame a run reaches alone, from its request and the responses xs
RECURSIVE Alone(_, _, _)
Alone(l, xs, i) == IF i > Len(xs) THEN l ELSE Alone(stage(l, xs[i]), xs, i + 1)

====
